---- MODULE Spec2Model ----
(***************************************************************************)
(* MeshModel (src/common/ml_document/mesh_model.cpp): the data mask of a   *)
(* mesh and the optional-component buffers of the contained CMeshO, and    *)
(* the texture list of the contained mesh with the name -> image map.      *)
(*                                                                         *)
(* A mask (an int of MM_* flags in the source) is the set of the names of  *)
(* its set bits: | is \cup, & is \cap, & ~m is \ m, and MM_NONE is {}.     *)
(***************************************************************************)
EXTENDS Naturals, Sequences, FiniteSets

VARIABLES
    currentDataMask,  \* MeshModel::currentDataMask
    enabled,          \* the optional components enabled on cm.vert / cm.face
    modified,         \* MeshModel::modified
    visible,          \* MeshModel::visible
    cmTextures,       \* cm.textures, the texture names of the contained mesh
    textures,         \* MeshModel::textures, name -> image
    called,           \* the last method called, with its argument
    attempts,         \* per entry of cm.textures, the loadImage calls of the last loadTextures
    returned,         \* the list returned by the last loadTextures
    fullPathFileName, \* MeshModel::fullPathFileName
    nCalls            \* number of calls made so far

maskVars == <<currentDataMask, enabled, modified, visible>>
texVars  == <<cmTextures, textures, attempts, returned, fullPathFileName>>
vars     == <<currentDataMask, enabled, modified, visible, cmTextures, textures,
              called, attempts, returned, fullPathFileName, nCalls>>

\* ---------------------------------------------------------------- bounds
MaxCalls == 3
MaxTex == 2
MaxTexCalls == 2

\* ---------------------------------------------------------------- data mask

\* "These data are always active on the mesh"
BaseMask ==
    {"MM_VERTCOORD", "MM_VERTNORMAL", "MM_VERTFLAG",
     "MM_FACEVERT", "MM_FACENORMAL", "MM_FACEFLAG"}

\* the flags that updateDataMask() sets whatever the mesh holds
AlwaysMask ==
    {"MM_VERTCOORD", "MM_VERTNORMAL", "MM_VERTFLAG", "MM_VERTQUALITY", "MM_VERTCOLOR",
     "MM_FACEVERT", "MM_FACENORMAL", "MM_FACEFLAG"}

\* the flags the data mask operations test
BufferMask ==
    {"MM_FACEFACETOPO", "MM_VERTFACETOPO", "MM_WEDGTEXCOORD", "MM_FACECOLOR",
     "MM_FACEQUALITY", "MM_FACECURVDIR", "MM_FACEMARK", "MM_VERTMARK", "MM_VERTCURV",
     "MM_VERTCURVDIR", "MM_VERTRADIUS", "MM_VERTTEXCOORD"}

\* every MM_* flag the data mask operations name
AllMask == AlwaysMask \cup BufferMask \cup {"MM_CAMERA", "MM_POLYGONAL"}

\* the optional (ocf) components of cm.vert and cm.face the operations switch
Buffers ==
    {"face.FFAdjacency", "vert.VFAdjacency", "face.VFAdjacency", "face.WedgeTexCoord",
     "face.Color", "face.Quality", "face.CurvatureDir", "face.Mark", "vert.Mark",
     "vert.Curvature", "vert.CurvatureDir", "vert.Radius", "vert.TexCoord"}

hasDataMask(mask, maskToBeTested) == (mask \cap maskToBeTested) # {}

\* updateDataMask(int): the components enabled for each needed flag
EnabledBy(bit) ==
    CASE bit = "MM_FACEFACETOPO" -> {"face.FFAdjacency"}
      [] bit = "MM_VERTFACETOPO" -> {"vert.VFAdjacency", "face.VFAdjacency"}
      [] bit = "MM_WEDGTEXCOORD" -> {"face.WedgeTexCoord"}
      [] bit = "MM_FACECOLOR"    -> {"face.Color"}
      [] bit = "MM_FACEQUALITY"  -> {"face.Quality"}
      [] bit = "MM_FACECURVDIR"  -> {"face.CurvatureDir"}
      [] bit = "MM_FACEMARK"     -> {"face.Mark"}
      [] bit = "MM_VERTMARK"     -> {"vert.Mark"}
      [] bit = "MM_VERTCURVDIR"  -> {"vert.CurvatureDir"}
      [] bit = "MM_VERTRADIUS"   -> {"vert.Radius"}
      [] bit = "MM_VERTTEXCOORD" -> {"vert.TexCoord"}
      [] OTHER                   -> {}

\* clearDataMask(int): the components disabled for each unneeded flag that is set
DisabledBy(bit) ==
    CASE bit = "MM_VERTFACETOPO" -> {"face.VFAdjacency", "vert.VFAdjacency"}
      [] bit = "MM_FACEFACETOPO" -> {"face.FFAdjacency"}
      [] bit = "MM_WEDGTEXCOORD" -> {"face.WedgeTexCoord"}
      [] bit = "MM_FACECOLOR"    -> {"face.Color"}
      [] bit = "MM_FACEQUALITY"  -> {"face.Quality"}
      [] bit = "MM_FACEMARK"     -> {"face.Mark"}
      [] bit = "MM_VERTMARK"     -> {"vert.Mark"}
      [] bit = "MM_VERTCURV"     -> {"vert.Curvature"}
      [] bit = "MM_VERTCURVDIR"  -> {"vert.CurvatureDir"}
      [] bit = "MM_VERTRADIUS"   -> {"vert.Radius"}
      [] bit = "MM_VERTTEXCOORD" -> {"vert.TexCoord"}
      [] OTHER                   -> {}

\* a mask/mesh pair
MM(mask, en) == [mask |-> mask, en |-> en]

\* void MeshModel::clear(): the mask restarts from the base flags; cm's
\* components are not touched
clearMM(s) == MM(BaseMask, s.en)

\* updateDataMask(int) with = in place of |= on its last line
updateDataMaskInt_assign(s, neededDataMask) ==
    MM(neededDataMask,
       s.en \cup UNION {EnabledBy(b) : b \in neededDataMask})

\* void MeshModel::updateDataMask(int neededDataMask)
updateDataMaskInt(s, neededDataMask) ==
    MM(s.mask \cup neededDataMask,
       s.en \cup UNION {EnabledBy(b) : b \in neededDataMask})

\* void MeshModel::clearDataMask(int unneededDataMask)
clearDataMaskInt(s, unneededDataMask) ==
    MM(s.mask \ unneededDataMask,
       s.en \ UNION {DisabledBy(b) : b \in {x \in unneededDataMask :
                                              hasDataMask(s.mask, {x})}})

\* the flags updateDataMask() reads back from cm
MaskOfBuffer(buf) ==
    CASE buf = "vert.VFAdjacency"   -> {"MM_VERTFACETOPO"}
      [] buf = "vert.Mark"          -> {"MM_VERTMARK"}
      [] buf = "vert.TexCoord"      -> {"MM_VERTTEXCOORD"}
      [] buf = "vert.CurvatureDir"  -> {"MM_VERTCURVDIR"}
      [] buf = "vert.Radius"        -> {"MM_VERTRADIUS"}
      [] buf = "face.Quality"       -> {"MM_FACEQUALITY"}
      [] buf = "face.Mark"          -> {"MM_FACEMARK"}
      [] buf = "face.Color"         -> {"MM_FACECOLOR"}
      [] buf = "face.FFAdjacency"   -> {"MM_FACEFACETOPO"}
      [] buf = "face.VFAdjacency"   -> {"MM_VERTFACETOPO"}
      [] buf = "face.CurvatureDir"  -> {"MM_FACECURVDIR"}
      [] buf = "face.WedgeTexCoord" -> {"MM_WEDGTEXCOORD"}
      [] OTHER                      -> {}

\* updateDataMask() without the reset to MM_NONE
updateDataMaskVoid_noReset(s) ==
    MM(s.mask \cup AlwaysMask \cup UNION {MaskOfBuffer(buf) : buf \in s.en}, s.en)

\* void MeshModel::updateDataMask()
updateDataMaskVoid(s) ==
    MM(AlwaysMask \cup UNION {MaskOfBuffer(buf) : buf \in s.en}, s.en)

\* the tri::io::Mask flags enable() tests, in the order it tests them, each
\* with the flag it passes to updateDataMask(int)
EnableTable ==
    << <<"IOM_VERTTEXCOORD", "MM_VERTTEXCOORD">>,
       <<"IOM_WEDGTEXCOORD", "MM_WEDGTEXCOORD">>,
       <<"IOM_VERTCOLOR",    "MM_VERTCOLOR">>,
       <<"IOM_FACECOLOR",    "MM_FACECOLOR">>,
       <<"IOM_VERTRADIUS",   "MM_VERTRADIUS">>,
       <<"IOM_CAMERA",       "MM_CAMERA">>,
       <<"IOM_VERTQUALITY",  "MM_VERTQUALITY">>,
       <<"IOM_FACEQUALITY",  "MM_FACEQUALITY">>,
       <<"IOM_BITPOLYGONAL", "MM_POLYGONAL">> >>

\* the file mask flags drawn as arguments of enable(): the tested ones and
\* one enable() does not test
IOMask == {EnableTable[i][1] : i \in 1..Len(EnableTable)} \cup {"IOM_VERTNORMAL"}

RECURSIVE enableFrom(_, _, _)
enableFrom(s, openingFileMask, i) ==
    IF i > Len(EnableTable) THEN s
    ELSE enableFrom(IF EnableTable[i][1] \in openingFileMask
                    THEN updateDataMaskInt(s, {EnableTable[i][2]})
                    ELSE s,
                    openingFileMask, i + 1)

\* void MeshModel::enable(int openingFileMask)
enableMM(s, openingFileMask) == enableFrom(s, openingFileMask, 1)

\* the mask arguments drawn: no flag, each single flag, some pairs, all flags
MaskArgs ==
    {{}} \cup {{b} : b \in AllMask} \cup {AllMask}
    \cup {{"MM_FACECOLOR", "MM_VERTCOORD"}, {"MM_VERTFACETOPO", "MM_FACEFACETOPO"}}

IOMaskArgs == {{}} \cup {{b} : b \in IOMask} \cup {IOMask}

Here == MM(currentDataMask, enabled)

CallWithin(max, op, arg) ==
    /\ nCalls < max
    /\ nCalls' = nCalls + 1
    /\ called' = [op |-> op, arg |-> arg]

Call(op, arg) == CallWithin(MaxCalls, op, arg)

SetMM(s) ==
    /\ currentDataMask' = s.mask
    /\ enabled' = s.en

Clear ==
    /\ Call("clear", {})
    /\ SetMM(clearMM(Here))
    /\ modified' = FALSE
    /\ visible' = TRUE
    /\ UNCHANGED texVars

UpdateDataMaskInt ==
    \E needed \in MaskArgs :
        /\ Call("updateDataMask(int)", needed)
        /\ SetMM(updateDataMaskInt(Here, needed))
        /\ UNCHANGED <<modified, visible>>
        /\ UNCHANGED texVars

ClearDataMask ==
    \E unneeded \in MaskArgs :
        /\ Call("clearDataMask", unneeded)
        /\ SetMM(clearDataMaskInt(Here, unneeded))
        /\ UNCHANGED <<modified, visible>>
        /\ UNCHANGED texVars

UpdateDataMaskVoid ==
    /\ Call("updateDataMask()", {})
    /\ SetMM(updateDataMaskVoid(Here))
    /\ UNCHANGED <<modified, visible>>
    /\ UNCHANGED texVars

Enable ==
    \E openingFileMask \in IOMaskArgs :
        /\ Call("enable", openingFileMask)
        /\ SetMM(enableMM(Here, openingFileMask))
        /\ UNCHANGED <<modified, visible>>
        /\ UNCHANGED texVars

SetMeshModified ==
    \E b \in BOOLEAN :
        /\ Call("setMeshModified", {})
        /\ modified' = b
        /\ UNCHANGED <<currentDataMask, enabled, visible>>
        /\ UNCHANGED texVars


\* ---------------------------------------------------------------- textures

\* A file or texture name is the sequence of its components; an absolute
\* path starts with the component "/".
IsAbsolute(p) == Len(p) > 0 /\ p[1] = "/"

\* the working directory of the process, against which QFileInfo resolves
\* relative names
CurrentDir == <<"/", "w">>

\* QFileInfo::absoluteFilePath()
absoluteFilePath(p) == IF IsAbsolute(p) THEN p ELSE CurrentDir \o p

\* QFileInfo::absolutePath(): the absolute path without the file name
absolutePath(p) == SubSeq(absoluteFilePath(p), 1, Len(absoluteFilePath(p)) - 1)

\* QFileInfo::fileName(): the name without the path
fileName(p) == <<p[Len(p)]>>

\* QFileInfo::filePath(): the name with its path, as given
filePath(p) == p

\* dir + "/" + name, as the file system resolves the string: the separators
\* of an absolute name collapse into the one that was added
Concat(dir, p) == dir \o (IF IsAbsolute(p) THEN Tail(p) ELSE p)

\* the texture names a mesh file brings
TexNames ==
    {<<"a.png">>, <<"x", "a.png">>, <<"/", "r", "a.png">>, <<"x", "dummy.png">>}

\* fullPathFileName, as given to the constructor: a mesh in the working
\* directory or in another one
MeshFiles == {<<"/", "w", "mesh.ply">>, <<"/", "m", "mesh.ply">>}

\* the name loadTextures gives a texture it could not load
DummyName == <<"dummy.png">>

\* QImage values: the dummy resource, the image read from a file, an image
\* handed to addTexture / setTexture
DummyImage == [kind |-> "dummy", path |-> <<>>]
FileImage(path) == [kind |-> "file", path |-> path]
GivenImages == {[kind |-> "given1", path |-> <<>>], [kind |-> "given2", path |-> <<>>]}
NoImage == [kind |-> "none", path |-> <<>>]

EmptyMap == [n \in {} |-> NoImage]

\* textures[k] = v
Put(map, k, v) == [n \in DOMAIN map \cup {k} |-> IF n = k THEN v ELSE map[n]]

\* textures.erase(k)
Erase(map, k) == [n \in DOMAIN map \ {k} |-> map[n]]

\* std::find(cm.textures.begin(), cm.textures.end(), name) != end
InList(list, name) == \E i \in 1..Len(list) : list[i] = name

\* index of the first element equal to name
FirstIndex(list, name) ==
    CHOOSE i \in 1..Len(list) : list[i] = name /\ \A j \in 1..(i - 1) : list[j] # name

\* meshlab::loadImage(path) returns the image when path is a readable image
\* file and throws MLException otherwise
loadImageOk(files, path) == path \in files

\* the state loadTextures works on
LT(names, map, tried, unloaded) ==
    [names |-> names, map |-> map, tried |-> tried, unloaded |-> unloaded]

\* a loadImage call and whether it returned (ok) or threw
Load(path, ok) == [path |-> path, ok |-> ok]

\* one iteration with the two load attempts in the other order
loadTexture_meshDirFirst(st, i, files, fullName) ==
    LET textName == st.names[i]
        first    == Concat(absolutePath(fullName), filePath(textName))
        second   == absoluteFilePath(textName)
        Done(newName, img, loads, unloaded) ==
            LT([st.names EXCEPT ![i] = newName], Put(st.map, newName, img),
               Append(st.tried, [loads |-> loads, img |-> img]), unloaded)
    IN  IF textName \in DOMAIN st.map
        THEN LT(st.names, st.map, Append(st.tried, [loads |-> <<>>, img |-> NoImage]),
                st.unloaded)
        ELSE IF loadImageOk(files, first)
        THEN Done(filePath(textName), FileImage(first), <<Load(first, TRUE)>>, st.unloaded)
        ELSE IF loadImageOk(files, second)
        THEN Done(fileName(textName), FileImage(second),
                  <<Load(first, FALSE), Load(second, TRUE)>>, st.unloaded)
        ELSE Done(DummyName, DummyImage, <<Load(first, FALSE), Load(second, FALSE)>>,
                  Append(st.unloaded, textName))

\* one iteration that stores the image under the name the texture had
loadTexture_oldKey(st, i, files, fullName) ==
    LET textName == st.names[i]
        first    == absoluteFilePath(textName)
        second   == Concat(absolutePath(fullName), filePath(textName))
        Done(newName, img, loads, unloaded) ==
            LT([st.names EXCEPT ![i] = newName], Put(st.map, textName, img),
               Append(st.tried, [loads |-> loads, img |-> img]), unloaded)
    IN  IF textName \in DOMAIN st.map
        THEN LT(st.names, st.map, Append(st.tried, [loads |-> <<>>, img |-> NoImage]),
                st.unloaded)
        ELSE IF loadImageOk(files, first)
        THEN Done(fileName(textName), FileImage(first), <<Load(first, TRUE)>>, st.unloaded)
        ELSE IF loadImageOk(files, second)
        THEN Done(filePath(textName), FileImage(second),
                  <<Load(first, FALSE), Load(second, TRUE)>>, st.unloaded)
        ELSE Done(DummyName, DummyImage, <<Load(first, FALSE), Load(second, FALSE)>>,
                  Append(st.unloaded, textName))

\* one iteration of the loop of loadTextures, on cm.textures[i]: tried gets
\* the loadImage calls made for the entry and the image stored for it
loadTexture(st, i, files, fullName) ==
    LET textName == st.names[i]
        first    == absoluteFilePath(textName)
        second   == Concat(absolutePath(fullName), filePath(textName))
        Done(newName, img, loads, unloaded) ==
            LT([st.names EXCEPT ![i] = newName], Put(st.map, newName, img),
               Append(st.tried, [loads |-> loads, img |-> img]), unloaded)
    IN  IF textName \in DOMAIN st.map
        THEN LT(st.names, st.map, Append(st.tried, [loads |-> <<>>, img |-> NoImage]),
                st.unloaded)
        ELSE IF loadImageOk(files, first)
        THEN Done(fileName(textName), FileImage(first), <<Load(first, TRUE)>>, st.unloaded)
        ELSE IF loadImageOk(files, second)
        THEN Done(filePath(textName), FileImage(second),
                  <<Load(first, FALSE), Load(second, TRUE)>>, st.unloaded)
        ELSE Done(DummyName, DummyImage, <<Load(first, FALSE), Load(second, FALSE)>>,
                  Append(st.unloaded, textName))

RECURSIVE loadTexturesFrom(_, _, _, _)
loadTexturesFrom(st, i, files, fullName) ==
    IF i > Len(st.names) THEN st
    ELSE loadTexturesFrom(loadTexture(st, i, files, fullName), i + 1, files, fullName)

\* std::list<std::string> MeshModel::loadTextures(log, cb)
loadTextures(names, map, files, fullName) ==
    loadTexturesFrom(LT(names, map, <<>>, <<>>), 1, files, fullName)

\* the paths a loadTextures call can ask loadImage for
PathsTried(names, map, fullName) ==
    UNION {{absoluteFilePath(names[i]), Concat(absolutePath(fullName), filePath(names[i]))} :
             i \in {j \in 1..Len(names) : names[j] \notin DOMAIN map}}

\* addTexture without the std::find on cm.textures
addTexture_noFind(names, map, name, txt) ==
    IF name \notin DOMAIN map
    THEN [names |-> Append(names, name),
          map   |-> Put(map, name, txt)]
    ELSE [names |-> names, map |-> map]

\* void MeshModel::addTexture(std::string name, const QImage& txt)
addTexture(names, map, name, txt) ==
    IF name \notin DOMAIN map
    THEN [names |-> IF ~InList(names, name) THEN Append(names, name) ELSE names,
          map   |-> Put(map, name, txt)]
    ELSE [names |-> names, map |-> map]

\* void MeshModel::setTexture(std::string name, const QImage& txt)
setTexture(map, name, txt) ==
    IF name \in DOMAIN map THEN [map EXCEPT ![name] = txt] ELSE map

\* void MeshModel::changeTextureName(const std::string& oldName, std::string newName)
changeTextureName(names, map, oldName, newName) ==
    IF oldName # newName /\ oldName \in DOMAIN map /\ InList(names, oldName)
    THEN [names |-> [names EXCEPT ![FirstIndex(names, oldName)] = newName],
          map   |-> Erase(Put(map, newName, map[oldName]), oldName)]
    ELSE [names |-> names, map |-> map]

TexCall(op, arg) == CallWithin(MaxTexCalls, op, arg)

LoadTextures ==
    \E files \in SUBSET PathsTried(cmTextures, textures, fullPathFileName) :
        LET r == loadTextures(cmTextures, textures, files, fullPathFileName)
        IN  /\ TexCall("loadTextures", {})
            /\ cmTextures' = r.names
            /\ textures' = r.map
            /\ attempts' = r.tried
            /\ returned' = r.unloaded
            /\ UNCHANGED <<maskVars, fullPathFileName>>

AddTexture ==
    \E name \in TexNames, txt \in GivenImages :
        LET r == addTexture(cmTextures, textures, name, txt)
        IN  /\ TexCall("addTexture", [name |-> name, txt |-> txt])
            /\ cmTextures' = r.names
            /\ textures' = r.map
            /\ UNCHANGED <<attempts, returned, maskVars, fullPathFileName>>

SetTexture ==
    \E name \in TexNames, txt \in GivenImages :
        /\ TexCall("setTexture", {})
        /\ textures' = setTexture(textures, name, txt)
        /\ UNCHANGED <<cmTextures, attempts, returned, maskVars, fullPathFileName>>

ChangeTextureName ==
    \E oldName \in TexNames, newName \in TexNames :
        LET r == changeTextureName(cmTextures, textures, oldName, newName)
        IN  /\ TexCall("changeTextureName", {})
            /\ cmTextures' = r.names
            /\ textures' = r.map
            /\ UNCHANGED <<attempts, returned, maskVars, fullPathFileName>>

ClearTextures ==
    /\ TexCall("clearTextures", {})
    /\ textures' = EmptyMap
    /\ cmTextures' = <<>>
    /\ UNCHANGED <<attempts, returned, maskVars, fullPathFileName>>

\* MeshModel::MeshModel: clear() on a mesh with no optional component enabled
Init ==
    /\ currentDataMask = BaseMask
    /\ enabled = {}
    /\ modified = FALSE
    /\ visible = TRUE
    /\ fullPathFileName = <<"/", "w", "mesh.ply">>
    /\ cmTextures = <<>>
    /\ textures = EmptyMap
    /\ called = [op |-> "MeshModel", arg |-> {}]
    /\ attempts = <<>>
    /\ returned = <<>>
    /\ nCalls = 0

Next ==
    \/ Clear
    \/ UpdateDataMaskInt
    \/ ClearDataMask
    \/ UpdateDataMaskVoid
    \/ Enable
    \/ SetMeshModified

Spec == Init /\ [][Next]_vars

\* the sequences over S of length at most n
SeqUpTo(S, n) == UNION {[1..k -> S] : k \in 0..n}

\* a constructed MeshModel whose contained mesh holds the texture names an
\* importer read from the mesh file, and whose map holds what was loaded
\* before (at most one image here)
InitTextures ==
    /\ currentDataMask = BaseMask
    /\ enabled = {}
    /\ modified = FALSE
    /\ visible = TRUE
    /\ fullPathFileName \in MeshFiles
    /\ cmTextures \in SeqUpTo(TexNames, MaxTex)
    /\ textures \in {EmptyMap} \cup
                    {Put(EmptyMap, n, [kind |-> "given1", path |-> <<>>]) : n \in TexNames}
    /\ called = [op |-> "MeshModel", arg |-> {}]
    /\ attempts = <<>>
    /\ returned = <<>>
    /\ nCalls = 0

NextTextures ==
    \/ LoadTextures
    \/ AddTexture
    \/ SetTexture
    \/ ChangeTextureName
    \/ ClearTextures

SpecTextures == InitTextures /\ [][NextTextures]_vars

\* ---------------------------------------------------------------- data mask claims

\* the components behind a flag of BufferMask
Backing(bit) ==
    CASE bit = "MM_VERTFACETOPO" -> {"vert.VFAdjacency", "face.VFAdjacency"}
      [] bit = "MM_FACEFACETOPO" -> {"face.FFAdjacency"}
      [] bit = "MM_WEDGTEXCOORD" -> {"face.WedgeTexCoord"}
      [] bit = "MM_FACECOLOR"    -> {"face.Color"}
      [] bit = "MM_FACEQUALITY"  -> {"face.Quality"}
      [] bit = "MM_FACECURVDIR"  -> {"face.CurvatureDir"}
      [] bit = "MM_FACEMARK"     -> {"face.Mark"}
      [] bit = "MM_VERTMARK"     -> {"vert.Mark"}
      [] bit = "MM_VERTCURV"     -> {"vert.Curvature"}
      [] bit = "MM_VERTCURVDIR"  -> {"vert.CurvatureDir"}
      [] bit = "MM_VERTRADIUS"   -> {"vert.Radius"}
      [] bit = "MM_VERTTEXCOORD" -> {"vert.TexCoord"}
      [] OTHER                   -> {}

BufferOn(en, bit) == Backing(bit) # {} /\ Backing(bit) \subseteq en
SomeBufferOn(en, bit) == (Backing(bit) \cap en) # {}

\* C1: in every reachable state each flag of the mask that has a backing
\* buffer is set if and only if that buffer is enabled on the contained mesh.
C1_MaskMirrorsBuffers ==
    \A bit \in BufferMask : (bit \in currentDataMask) <=> BufferOn(enabled, bit)

\* C5: the six base flags are set in currentDataMask in every reachable state.
C5_BaseAlwaysActive == BaseMask \subseteq currentDataMask

IsCall(op) == called'.op = op /\ nCalls' = nCalls + 1

\* C7: updateDataMask(needed) leaves the mask equal to old mask | needed,
\* disables no component, and a second call with the same argument changes
\* neither the mask nor the components.
C7_UpdateOnlyEnables ==
    [][IsCall("updateDataMask(int)") =>
        /\ currentDataMask' = currentDataMask \cup called'.arg
        /\ enabled \subseteq enabled'
        /\ updateDataMaskInt(MM(currentDataMask', enabled'), called'.arg)
             = MM(currentDataMask', enabled')]_vars

\* C7 witness: an updateDataMask(int) that enabled face colour while a flag
\* set earlier, and not in its argument, is still set.
C7_Witness ==
    /\ called.op = "updateDataMask(int)"
    /\ "MM_FACECOLOR" \in called.arg
    /\ "face.Color" \in enabled
    /\ "MM_VERTMARK" \in currentDataMask \ called.arg

\* the flags C8 lists, each set exactly when its component is enabled
C8_Listed ==
    {"MM_VERTMARK", "MM_VERTTEXCOORD", "MM_VERTCURVDIR", "MM_VERTRADIUS", "MM_FACEQUALITY",
     "MM_FACEMARK", "MM_FACECOLOR", "MM_FACEFACETOPO", "MM_FACECURVDIR", "MM_WEDGTEXCOORD"}

C8_Recomputed ==
    /\ \A bit \in C8_Listed : (bit \in currentDataMask') <=> BufferOn(enabled', bit)
    /\ ("MM_VERTFACETOPO" \in currentDataMask') <=> SomeBufferOn(enabled', "MM_VERTFACETOPO")

\* C8 as stated: after updateDataMask() each listed flag mirrors its
\* component, MM_VERTFACETOPO mirrors vertex or face VF adjacency, and no
\* flag set before the call is lost unless its buffer is disabled.
C8_NoFlagLost ==
    [][IsCall("updateDataMask()") =>
        /\ C8_Recomputed
        /\ \A bit \in currentDataMask :
             bit \in currentDataMask' \/ (Backing(bit) # {} /\ ~BufferOn(enabled, bit))]_vars

\* C8 amended: after updateDataMask() each listed flag mirrors its component,
\* MM_VERTFACETOPO mirrors vertex or face VF adjacency, such a flag is lost
\* only if its buffer is disabled, the eight flags the function always sets
\* are set, and every other flag (MM_VERTCURV, MM_CAMERA, MM_POLYGONAL) is
\* cleared.
C8_RecomputedFromBuffers ==
    [][IsCall("updateDataMask()") =>
        /\ C8_Recomputed
        /\ \A bit \in currentDataMask \cap (C8_Listed \cup {"MM_VERTFACETOPO"}) :
             bit \in currentDataMask' \/ ~BufferOn(enabled, bit)
        /\ AlwaysMask \subseteq currentDataMask'
        /\ currentDataMask' \subseteq AlwaysMask \cup C8_Listed \cup {"MM_VERTFACETOPO"}]_vars

\* C8 witness: updateDataMask() has run on a mesh with face colour enabled
\* and vertex marks disabled, and the mask says so.
C8_Witness ==
    /\ called.op = "updateDataMask()"
    /\ "face.Color" \in enabled
    /\ "MM_FACECOLOR" \in currentDataMask
    /\ "vert.Mark" \notin enabled
    /\ "MM_VERTMARK" \notin currentDataMask

\* ---------------------------------------------------------------- texture claims

\* the keys of the map when loadTextures reaches entry i: the keys it
\* started with and the names it gave to the entries before i
KeysAt(i) == DOMAIN textures \cup {cmTextures'[j] : j \in 1..(i - 1)}

BothFailed(t) == Len(t.loads) = 2 /\ ~t.loads[1].ok /\ ~t.loads[2].ok

\* C2: for every entry whose name is not yet a key, loadTextures first loads
\* the absolute file path of the name; only if that fails, the mesh file's
\* directory plus the name; only if that fails too, it stores the dummy
\* image. An entry whose name is a key causes no load.
C2_TwoLevelFallback ==
    [][IsCall("loadTextures") =>
        /\ Len(attempts') = Len(cmTextures)
        /\ \A i \in 1..Len(cmTextures) :
            LET n == cmTextures[i]
                t == attempts'[i]
            IN  IF n \in KeysAt(i)
                THEN t.loads = <<>>
                ELSE /\ Len(t.loads) \in {1, 2}
                     /\ t.loads[1].path = absoluteFilePath(n)
                     /\ (Len(t.loads) = 2) <=> ~t.loads[1].ok
                     /\ Len(t.loads) = 2 =>
                          t.loads[2].path = Concat(absolutePath(fullPathFileName), n)
                     /\ (t.img = DummyImage) <=> BothFailed(t)
                     /\ ~BothFailed(t) => t.img = FileImage(t.loads[Len(t.loads)].path)]_vars

\* C2 witness: a loadTextures that loaded one texture at the first attempt
\* and another at the second.
C2_Witness ==
    /\ called.op = "loadTextures"
    /\ \E i \in 1..Len(attempts) : Len(attempts[i].loads) = 1
    /\ \E i \in 1..Len(attempts) : Len(attempts[i].loads) = 2 /\ attempts[i].loads[2].ok

\* the names of list at the indices i..Len(list) for which both loads failed
RECURSIVE FailedNames(_, _, _)
FailedNames(list, tried, i) ==
    IF i > Len(list) THEN <<>>
    ELSE (IF BothFailed(tried[i]) THEN <<list[i]>> ELSE <<>>)
         \o FailedNames(list, tried, i + 1)

\* C3: loadTextures returns, in list order and under their original names,
\* exactly the names for which both loads failed; each of these entries is
\* renamed to the dummy name in cm.textures and mapped to the dummy image.
C3_ReturnsUnloaded ==
    [][IsCall("loadTextures") =>
        /\ returned' = FailedNames(cmTextures, attempts', 1)
        /\ \A i \in 1..Len(cmTextures) :
             BothFailed(attempts'[i]) =>
                /\ cmTextures'[i] = DummyName
                /\ cmTextures'[i] \in DOMAIN textures'
                /\ textures'[cmTextures'[i]] = DummyImage]_vars

AllKeys(list, map) == \A i \in 1..Len(list) : list[i] \in DOMAIN map

\* C4: after loadTextures every name of cm.textures is a key of the map, and
\* a loadTextures that follows a loadTextures makes no load, changes neither
\* the list nor the map and returns the empty list.
C4_AllNamesMapped ==
    [][IsCall("loadTextures") =>
        /\ AllKeys(cmTextures', textures')
        /\ called.op = "loadTextures" =>
             /\ \A i \in 1..Len(attempts') : attempts'[i].loads = <<>>
             /\ cmTextures' = cmTextures
             /\ textures' = textures
             /\ returned' = <<>>]_vars

\* C4 witness: the second of two loadTextures calls has returned; the first
\* had put the dummy image in the map.
C4_Witness ==
    /\ called.op = "loadTextures"
    /\ nCalls = 2
    /\ Len(cmTextures) = 2
    /\ \A i \in 1..Len(attempts) : attempts[i].loads = <<>>
    /\ DummyName \in DOMAIN textures
    /\ textures[DummyName] = DummyImage

NoDuplicates(list) == \A i, j \in 1..Len(list) : list[i] = list[j] => i = j

\* C6: addTexture(name, txt) keeps a duplicate-free cm.textures duplicate
\* free; for a name that is no key it maps name to txt and appends name
\* unless the list has it; for a key it changes neither the map nor the list.
C6_AddTextureNoDuplicates ==
    [][IsCall("addTexture") =>
        LET name == called'.arg.name
            txt  == called'.arg.txt
        IN  /\ NoDuplicates(cmTextures) => NoDuplicates(cmTextures')
            /\ name \notin DOMAIN textures =>
                 /\ DOMAIN textures' = DOMAIN textures \cup {name}
                 /\ textures'[name] = txt
                 /\ \A n \in DOMAIN textures : textures'[n] = textures[n]
                 /\ cmTextures' = IF InList(cmTextures, name) THEN cmTextures
                                  ELSE Append(cmTextures, name)
            /\ name \in DOMAIN textures =>
                 /\ textures' = textures
                 /\ cmTextures' = cmTextures]_vars

\* C6 witness: addTexture was called for a name the map holds with another
\* image, and the map still holds that image.
C6_Witness ==
    /\ called.op = "addTexture"
    /\ called.arg.name \in DOMAIN textures
    /\ textures[called.arg.name] # called.arg.txt
    /\ NoDuplicates(cmTextures)
    /\ Len(cmTextures) = 2

====
